---- MODULE Spec2Model ----
(***************************************************************************)
(* A model of src/src/index.js (react-base16-styling): the styling merge   *)
(* algebra (merger, mergeStyling, mergeStylings), the key resolver         *)
(* (getStylingByKeys), theme inversion and resolution (invertTheme,        *)
(* getBase16Theme) and the entry point (createStyling).                    *)
(*                                                                         *)
(* JavaScript values are tagged records; every JavaScript object lives in  *)
(* a heap (a sequence of objects, an address is an index), so that sharing *)
(* and in-place writes are visible.  A function value is the record of     *)
(* what its closure captured; Apply runs it.  Every operation takes the    *)
(* store st = [heap, calls] and returns [st, v]: the store it leaves and   *)
(* the value it returns (Throw for an exception).                          *)
(***************************************************************************)
EXTENDS Integers, Sequences, FiniteSets, TLC

VARIABLES op, inp, heap, calls, ret, retv, styling, heap0

vars == <<op, inp, heap, calls, ret, retv, styling, heap0>>

---------------------------------------------------------------------------
(* Bounds of the model.                                                    *)

\* the longest list of extra arguments handed to a styling function
MaxArgs == 1
\* the longest key list handed to the key resolver
MaxKeys == 2
\* how many times in a row invertTheme is applied
MaxInvert == 2

---------------------------------------------------------------------------
(* JavaScript values.                                                      *)

Undefined == [t |-> "undefined"]
Null == [t |-> "null"]
Throw == [t |-> "throw"]
Str(s) == [t |-> "string", v |-> s]
Ref(a) == [t |-> "object", a |-> a]
Arr(items) == [t |-> "array", items |-> items]
Fun(f) == [t |-> "function", f |-> f]

\* the typeof operator
typeof(v) ==
    CASE v.t = "undefined" -> "undefined"
      [] v.t = "string" -> "string"
      [] v.t = "function" -> "function"
      [] OTHER -> "object"

\* ToBoolean, as used by filter(Boolean), !x, x || y and x && y
Truthy(v) ==
    CASE v.t \in {"undefined", "null"} -> FALSE
      [] v.t = "string" -> v.v # ""
      [] OTHER -> TRUE

\* x || y
Or(x, y) == IF Truthy(x) THEN x ELSE y

EmptyObj == [k \in {} |-> Undefined]

\* the own enumerable properties of a string: its characters by index
StrChars(s) ==
    [k \in {ToString(i - 1) : i \in 1..Len(s)} |->
        LET i == CHOOSE j \in 1..Len(s) : ToString(j - 1) = k
        IN  Str(SubSeq(s, i, i))]

\* the own enumerable properties of a value, as spread {...v} copies them
OwnProps(v, h) ==
    CASE v.t = "object" -> h[v.a]
      [] v.t = "string" -> StrChars(v.v)
      [] OTHER -> EmptyObj

\* v[k] for a value v that is not undefined or null
Get(v, k, h) ==
    LET c == OwnProps(v, h)
    IN  IF k \in DOMAIN c THEN c[k] ELSE Undefined

\* { ...a, ...b } on property maps
Spread(a, b) ==
    [k \in DOMAIN a \cup DOMAIN b |-> IF k \in DOMAIN b THEN b[k] ELSE a[k]]

Put(c, k, v) == [x \in DOMAIN c \cup {k} |-> IF x = k THEN v ELSE c[x]]

Del(c, k) == [x \in DOMAIN c \ {k} |-> c[x]]

RECURSIVE SetToSeq(_)
SetToSeq(S) ==
    IF S = {} THEN <<>>
    ELSE LET x == CHOOSE y \in S : TRUE
         IN  <<x>> \o SetToSeq(S \ {x})

\* Object.keys(o): the own keys, in one fixed order
ObjectKeys(c) == SetToSeq(DOMAIN c)

RECURSIVE JoinSpace(_)
\* strs.join(' ')
JoinSpace(strs) ==
    IF strs = <<>> THEN ""
    ELSE IF Len(strs) = 1 THEN strs[1]
    ELSE strs[1] \o " " \o JoinSpace(Tail(strs))

\* [x, y].filter(Boolean).join(' ') on values that are strings or undefined
JoinFiltered(vals) ==
    LET kept == SelectSeq(vals, Truthy)
    IN  JoinSpace([i \in 1..Len(kept) |-> kept[i].v])

---------------------------------------------------------------------------
(* The store.                                                              *)

R(st, v) == [st |-> st, v |-> v]

\* a new object with the given properties; its address is NewAddr(st)
NewAddr(st) == Len(st.heap) + 1

Alloc(st, c) == [st EXCEPT !.heap = Append(@, c)]

SetField(st, a, k, v) == [st EXCEPT !.heap[a] = Put(@, k, v)]

DelField(st, a, k) == [st EXCEPT !.heap[a] = Del(@, k)]

\* F applied to the value of x: x is computed once, before F uses it
With(x, F(_)) == CHOOSE y \in {F(v) : v \in {x}} : TRUE

RECURSIVE Deep(_, _)
\* the contents a value denotes in heap h, with every address followed
Deep(v, h) ==
    CASE v.t = "object" ->
            [t |-> "object", c |-> [k \in DOMAIN h[v.a] |-> Deep(h[v.a][k], h)]]
      [] v.t = "function" ->
            Fun([k \in DOMAIN v.f |->
                    IF k \in {"styling", "customStyling", "defaultStyling", "mergedStyling"}
                    THEN Deep(v.f[k], h) ELSE v.f[k]])
      [] OTHER -> v

---------------------------------------------------------------------------
(* The objects the callers hold before any call: style objects, props      *)
(* objects, themes, registries and theme-or-styling inputs.                *)

BaseHeap ==
    << EmptyObj,                                                   \* 1
       [color |-> Str("red")],                                     \* 2
       [color |-> Str("blue"), size |-> Str("1")],                 \* 3
       [weight |-> Str("bold")],                                   \* 4
       EmptyObj,                                                   \* 5
       [className |-> Str(""), style |-> Ref(5)],                  \* 6
       [color |-> Str("green")],                                   \* 7
       [className |-> Str("p"), style |-> Ref(7)],                 \* 8
       [scheme |-> Str("default"), author |-> Str("chris"),
        base00 |-> Str("#181818"), base0D |-> Str("#7cafc2")],     \* 9
       [scheme |-> Str("ocean"), author |-> Str("chris"),
        base00 |-> Str("#2b303b"), base0D |-> Str("#8fa1b3")],     \* 10
       [scheme |-> Str("mine"),
        base00 |-> Str("#111111"), base0D |-> Str("#222222")],     \* 11
       [mine |-> Ref(11)],                                         \* 12
       [scheme |-> Str("alt"), author |-> Str("me"),
        base00 |-> Str("#aaaaaa"), base0D |-> Str("#bbbbbb")],     \* 13
       [base00 |-> Str("#cccccc")],                                \* 14
       [base00 |-> Str("#000000"), k1 |-> Str("c1")],              \* 15
       [extend |-> Str("ocean"), k1 |-> Ref(2),
        k3 |-> Fun([k |-> "user", id |-> "fCls"])],                \* 16
       [k1 |-> Ref(3), k2 |-> Fun([k |-> "user", id |-> "fId"]),
        k4 |-> Str("c4")],                                         \* 17
       [base0D |-> Str("#ff0000"), k2 |-> Ref(2)],                 \* 18
       [k |-> Ref(7), baseline |-> Str("#333333")],                \* 19
       EmptyObj,                                                   \* 20
       [defaultBase16 |-> Ref(13)],                                \* 21
       [defaultBase16 |-> Ref(14)],                                \* 22
       [base16Themes |-> Ref(12)],                                 \* 23
       [extend |-> Str("nosuch:inverted"), k1 |-> Str("c1")] >>    \* 24

\* the style object the caller's function fSty captured
SHARED == Ref(4)

\* DEFAULT_BASE16 = base16.default, cut down to two of its sixteen colours
DEFAULT_BASE16 == Ref(9)

\* Object.keys(DEFAULT_BASE16)
BASE16_KEYS == DOMAIN BaseHeap[DEFAULT_BASE16.a]

\* the named themes the base16 package exports
base16 == [default |-> DEFAULT_BASE16, ocean |-> Ref(10)]

---------------------------------------------------------------------------
(* Styling functions supplied by the caller.  Each call is logged.         *)

UserFnIds == {"fEmpty", "fCls", "fSty", "fId", "fAdd", "fHas"}

User(id) == Fun([k |-> "user", id |-> id])

ArgStrs(args) == [i \in 1..Len(args) |-> args[i].v]

\*  fEmpty = () => ({})
\*  fCls   = (props, ...args) => ({ className: ['f', ...args].join(' ') })
\*  fSty   = () => ({ style: SHARED })
\*  fId    = props => props
\*  fAdd   = (props, ...args) => ({
\*             className: [props.className, 'g', ...args].filter(Boolean).join(' '),
\*             style: { ...props.style, color: 'green' } })
\*  fHas   = props => ({ className: 'className' in props ? 'has' : 'no', style: {} })
UserResult(id, props, args, s1) ==
    LET h == s1.heap
    IN  CASE id = "fEmpty" -> R(Alloc(s1, EmptyObj), Ref(NewAddr(s1)))
          [] id = "fCls" ->
                R(Alloc(s1, [className |-> Str(JoinSpace(<<"f">> \o ArgStrs(args)))]),
                  Ref(NewAddr(s1)))
          [] id = "fSty" -> R(Alloc(s1, [style |-> SHARED]), Ref(NewAddr(s1)))
          [] id = "fId" -> R(s1, props)
          [] id = "fAdd" ->
                LET s2 == Alloc(s1, Spread(OwnProps(Get(props, "style", h), h),
                                           [color |-> Str("green")]))
                    cls == JoinFiltered(<<Get(props, "className", h), Str("g")>> \o args)
                IN  R(Alloc(s2, [className |-> Str(cls), style |-> Ref(NewAddr(s1))]),
                      Ref(NewAddr(s2)))
          [] id = "fHas" ->
                LET s2 == Alloc(s1, EmptyObj)
                    cls == IF "className" \in DOMAIN OwnProps(props, h)
                           THEN "has" ELSE "no"
                IN  R(Alloc(s2, [className |-> Str(cls), style |-> Ref(NewAddr(s1))]),
                      Ref(NewAddr(s2)))

\* the call id(props, ...args): logged, then answered
UserCall(id, props, args, st) ==
    With([st EXCEPT !.calls = Append(@,
             [fn |-> id, props |-> Deep(props, st.heap), args |-> args])],
         LAMBDA s1 : UserResult(id, props, args, s1))

---------------------------------------------------------------------------
(* merger and mergeStyling.                                                *)

\* merger with the two class names joined in the wrong order
mergerStylingFirst(stylingObj, prevStyling, st) ==
    LET h == st.heap
        cls == JoinFiltered(<<Get(stylingObj, "className", h),
                              Get(prevStyling, "className", h)>>)
        sty == Spread(OwnProps(Get(prevStyling, "style", h), h),
                      OwnProps(Get(stylingObj, "style", h), h))
    IN  R(Alloc(Alloc(st, sty), [className |-> Str(cls), style |-> Ref(NewAddr(st))]),
          Ref(NewAddr(st) + 1))

\* merger(styling)(prevStyling): a new props object
\*   className: [prevStyling.className, styling.className].filter(Boolean).join(' ')
\*   style: { ...(prevStyling.style || {}), ...(styling.style || {}) }
merger(stylingObj, prevStyling, st) ==
    LET h == st.heap
        cls == JoinFiltered(<<Get(prevStyling, "className", h),
                              Get(stylingObj, "className", h)>>)
        sty == Spread(OwnProps(Get(prevStyling, "style", h), h),
                      OwnProps(Get(stylingObj, "style", h), h))
    IN  R(Alloc(Alloc(st, sty), [className |-> Str(cls), style |-> Ref(NewAddr(st))]),
          Ref(NewAddr(st) + 1))

\* the switch of mergeStyling on (typeof customStyling, typeof defaultStyling)
mergeByType(customStyling, defaultStyling, st) ==
    LET ct == typeof(customStyling)
        dt == typeof(defaultStyling)
        h == st.heap
    IN  CASE ct = "string" /\ dt = "string" ->
                R(st, Str(JoinFiltered(<<defaultStyling, customStyling>>)))
          [] ct = "string" /\ dt = "object" ->
                R(Alloc(st, [className |-> customStyling, style |-> defaultStyling]),
                  Fun([k |-> "merger", styling |-> Ref(NewAddr(st))]))
          [] ct = "string" /\ dt = "function" ->
                R(st, Fun([k |-> "strOverFn", customStyling |-> customStyling,
                           defaultStyling |-> defaultStyling]))
          [] ct = "object" /\ dt = "string" ->
                R(Alloc(st, [className |-> defaultStyling, style |-> customStyling]),
                  Fun([k |-> "merger", styling |-> Ref(NewAddr(st))]))
          [] ct = "object" /\ dt = "object" ->
                R(Alloc(st, Spread(OwnProps(defaultStyling, h), OwnProps(customStyling, h))),
                  Ref(NewAddr(st)))
          [] ct = "object" /\ dt = "function" ->
                R(st, Fun([k |-> "objOverFn", customStyling |-> customStyling,
                           defaultStyling |-> defaultStyling]))
          [] ct = "function" /\ dt = "string" ->
                R(st, Fun([k |-> "fnOverStr", customStyling |-> customStyling,
                           defaultStyling |-> defaultStyling]))
          [] ct = "function" /\ dt = "object" ->
                R(st, Fun([k |-> "fnOverObj", customStyling |-> customStyling,
                           defaultStyling |-> defaultStyling]))
          [] ct = "function" /\ dt = "function" ->
                R(st, Fun([k |-> "fnOverFn", customStyling |-> customStyling,
                           defaultStyling |-> defaultStyling]))
          [] OTHER -> R(st, Undefined)

\* mergeStyling without its second early return
mergeStylingOneReturn(customStyling, defaultStyling, st) ==
    IF customStyling = Undefined THEN R(st, defaultStyling)
    ELSE mergeByType(customStyling, defaultStyling, st)

mergeStyling(customStyling, defaultStyling, st) ==
    IF customStyling = Undefined THEN R(st, defaultStyling)
    ELSE IF defaultStyling = Undefined THEN R(st, customStyling)
    ELSE mergeByType(customStyling, defaultStyling, st)

\* (styling, ...args) => customStyling(merger(styling)(literal), ...args):
\* the props object the custom function is called with
seedProps(stylingArg, literal, st) ==
    merger(stylingArg, Ref(NewAddr(st)), Alloc(st, literal))

\* (styling, ...args) => merger(literal)(defaultStyling(styling, ...args)):
\* what is returned once the default function has returned d
augmentResult(literal, d) ==
    merger(Ref(NewAddr(d.st)), d.v, Alloc(d.st, literal))

RECURSIVE Apply(_, _, _, _)
\* fn(styling, ...args) for a function value fn
Apply(fn, stylingArg, args, st) ==
    LET f == fn.f
    IN  CASE f.k = "user" -> UserCall(f.id, stylingArg, args, st)
          [] f.k = "merger" -> merger(f.styling, stylingArg, st)
          [] f.k = "strOverFn" ->
                With(Apply(f.defaultStyling, stylingArg, args, st),
                     LAMBDA d : augmentResult([className |-> f.customStyling], d))
          [] f.k = "objOverFn" ->
                With(Apply(f.defaultStyling, stylingArg, args, st),
                     LAMBDA d : augmentResult([style |-> f.customStyling], d))
          [] f.k = "fnOverStr" ->
                With(seedProps(stylingArg, [className |-> f.defaultStyling], st),
                     LAMBDA m : Apply(f.customStyling, m.v, args, m.st))
          [] f.k = "fnOverObj" ->
                With(seedProps(stylingArg, [style |-> f.defaultStyling], st),
                     LAMBDA m : Apply(f.customStyling, m.v, args, m.st))
          [] f.k = "fnOverFn" ->
                With(Apply(f.defaultStyling, stylingArg, args, st),
                     LAMBDA d : Apply(f.customStyling, d.v, args, d.st))

---------------------------------------------------------------------------
(* mergeStylings.                                                          *)

\* mergedKeys without the loop over customStylings
mergedKeysOfDefault(customStylings, defaultStylings, h) ==
    ObjectKeys(OwnProps(defaultStylings, h))

\* Object.keys(defaultStylings), then the keys only customStylings has
mergedKeys(customStylings, defaultStylings, h) ==
    LET dk == ObjectKeys(OwnProps(defaultStylings, h))
        ck == ObjectKeys(OwnProps(customStylings, h))
    IN  dk \o SelectSeq(ck, LAMBDA key : key \notin DOMAIN OwnProps(defaultStylings, h))

RECURSIVE reduceKeys(_, _, _, _, _)
\* keys.reduce((mergedStyling, key) =>
\*     (mergedStyling[key] = mergeStyling(customStylings[key], defaultStylings[key]),
\*      mergedStyling), {})
reduceKeys(keys, customStylings, defaultStylings, merged, st) ==
    IF keys = <<>> THEN R(st, merged)
    ELSE With(mergeStyling(Get(customStylings, Head(keys), st.heap),
                           Get(defaultStylings, Head(keys), st.heap), st),
              LAMBDA m : With(SetField(m.st, merged.a, Head(keys), m.v),
                  LAMBDA next :
                      reduceKeys(Tail(keys), customStylings, defaultStylings, merged, next)))

mergeStylings(customStylings, defaultStylings, st) ==
    With(Alloc(st, EmptyObj),
         LAMBDA s1 : reduceKeys(mergedKeys(customStylings, defaultStylings, s1.heap),
                                customStylings, defaultStylings, Ref(Len(s1.heap)), s1))

---------------------------------------------------------------------------
(* getStylingByKeys.                                                       *)

\* reduceStep with the object case written Object.assign(obj.style, s)
reduceStepInPlace(obj, s, args, st) ==
    LET h == st.heap
    IN  CASE typeof(s) = "string" ->
                R(SetField(st, obj.a, "className",
                           Str(JoinFiltered(<<Get(obj, "className", h), s>>))), obj)
          [] typeof(s) = "object" ->
                R([st EXCEPT !.heap[Get(obj, "style", h).a] = Spread(@, OwnProps(s, h))],
                  obj)
          [] typeof(s) = "function" ->
                With(Apply(s, obj, args, st),
                     LAMBDA r : R(Alloc(r.st, Spread(OwnProps(obj, r.st.heap),
                                                     OwnProps(r.v, r.st.heap))),
                                  Ref(NewAddr(r.st))))
          [] OTHER -> R(st, obj)

\* one step of styles.reduce((obj, s) => ..., { className: '', style: {} })
reduceStep(obj, s, args, st) ==
    LET h == st.heap
    IN  CASE typeof(s) = "string" ->
                R(SetField(st, obj.a, "className",
                           Str(JoinFiltered(<<Get(obj, "className", h), s>>))), obj)
          [] typeof(s) = "object" ->
                R(SetField(Alloc(st, Spread(OwnProps(Get(obj, "style", h), h),
                                            OwnProps(s, h))),
                           obj.a, "style", Ref(NewAddr(st))), obj)
          [] typeof(s) = "function" ->
                With(Apply(s, obj, args, st),
                     LAMBDA r : R(Alloc(r.st, Spread(OwnProps(obj, r.st.heap),
                                                     OwnProps(r.v, r.st.heap))),
                                  Ref(NewAddr(r.st))))
          [] OTHER -> R(st, obj)

RECURSIVE reduceStyles(_, _, _, _)
reduceStyles(styles, obj, args, st) ==
    IF styles = <<>> THEN R(st, obj)
    ELSE With(reduceStep(obj, Head(styles), args, st),
              LAMBDA r : reduceStyles(Tail(styles), r.v, args, r.st))

\* omitEmpty without the deletion of an empty className
omitEmptyStyleOnly(props, st) ==
    LET style == Get(props, "style", st.heap)
    IN  IF style.t \in {"undefined", "null"} THEN R(st, Throw)
        ELSE IF DOMAIN OwnProps(style, st.heap) = {}
             THEN R(DelField(st, props.a, "style"), props)
             ELSE R(st, props)

\* if (!props.className) delete props.className;
\* if (Object.keys(props.style).length === 0) delete props.style;
omitEmpty(props, st) ==
    LET s1 == IF Truthy(Get(props, "className", st.heap)) THEN st
              ELSE DelField(st, props.a, "className")
        style == Get(props, "style", st.heap)
    IN  IF style.t \in {"undefined", "null"} THEN R(s1, Throw)
        ELSE IF DOMAIN OwnProps(style, st.heap) = {}
             THEN R(DelField(s1, props.a, "style"), props)
             ELSE R(s1, props)

\* keys.map(key => mergedStyling[key]).filter(Boolean)
lookupStyles(mergedStyling, keyList, h) ==
    SelectSeq([i \in 1..Len(keyList) |-> Get(mergedStyling, keyList[i].v, h)], Truthy)

getStylingByKeys(mergedStyling, keys, args, st) ==
    IF keys = Null THEN R(st, mergedStyling)
    ELSE LET keyList == IF keys.t = "array" THEN keys.items ELSE <<keys>>
             s2 == Alloc(Alloc(st, EmptyObj),
                         [className |-> Str(""), style |-> Ref(NewAddr(st))])
         IN  With(reduceStyles(lookupStyles(mergedStyling, keyList, st.heap),
                               Ref(NewAddr(st) + 1), args, s2),
                  LAMBDA props : omitEmpty(props.v, props.st))

---------------------------------------------------------------------------
(* invertTheme and getBase16Theme.                                         *)

\* the colour inverter (parse, rgb2yuv, flip the luma, yuv2rgb, rgb2hex), kept opaque
invertColor(c) == Str("inv(" \o c.v \o ")")

\* /^base/.test(key)
StartsWithBase(key) == Len(key) >= 4 /\ SubSeq(key, 1, 4) = "base"

\* invertEntry without the ':inverted' suffix of the scheme
invertEntryPlainScheme(key, value) ==
    IF StartsWithBase(key) THEN invertColor(value) ELSE value

\* the value invertTheme stores under key
invertEntry(key, value) ==
    IF StartsWithBase(key) THEN invertColor(value)
    ELSE IF key = "scheme" THEN Str(value.v \o ":inverted")
    ELSE value

RECURSIVE invertKeys(_, _, _, _)
\* Object.keys(theme).reduce((t, key) => (t[key] = ..., t), {})
invertKeys(keys, theme, t, st) ==
    IF keys = <<>> THEN R(st, t)
    ELSE With(SetField(st, t.a, Head(keys),
                       invertEntry(Head(keys), Get(theme, Head(keys), st.heap))),
              LAMBDA next : invertKeys(Tail(keys), theme, t, next))

invertTheme(theme, st) ==
    IF theme.t \in {"undefined", "null"} THEN R(st, Throw)
    ELSE invertKeys(ObjectKeys(OwnProps(theme, st.heap)), theme, Ref(NewAddr(st)),
                    Alloc(st, EmptyObj))

\* the position of the first ':' of s, 0 if it has none
FirstColon(s) ==
    LET at == {i \in 1..Len(s) : SubSeq(s, i, i) = ":"}
    IN  IF at = {} THEN 0 ELSE CHOOSE i \in at : \A j \in at : i <= j

RECURSIVE SplitColon(_)
\* s.split(':')
SplitColon(s) ==
    LET i == FirstColon(s)
    IN  IF i = 0 THEN <<s>>
        ELSE <<SubSeq(s, 1, i - 1)>> \o SplitColon(SubSeq(s, i + 1, Len(s)))

\* return theme && theme.hasOwnProperty('base00') ? theme : undefined
acceptTheme(r) ==
    IF r.v = Throw THEN r
    ELSE IF Truthy(r.v) /\ "base00" \in DOMAIN OwnProps(r.v, r.st.heap) THEN r
    ELSE R(r.st, Undefined)

getBase16Theme(theme0, base16Themes, st) ==
    LET h == st.heap
        theme1 == IF Truthy(theme0) /\ Truthy(Get(theme0, "extend", h))
                  THEN Get(theme0, "extend", h) ELSE theme0
        parts == SplitColon(theme1.v)
        themeName == parts[1]
        modifier == IF Len(parts) >= 2 THEN Str(parts[2]) ELSE Undefined
        registry == IF Truthy(base16Themes) THEN OwnProps(base16Themes, h) ELSE EmptyObj
        found == Or(IF themeName \in DOMAIN registry THEN registry[themeName] ELSE Undefined,
                    IF themeName \in DOMAIN base16 THEN base16[themeName] ELSE Undefined)
    IN  With(IF typeof(theme1) # "string" THEN R(st, theme1)
             ELSE IF modifier = Str("inverted") THEN invertTheme(found, st)
             ELSE R(st, found),
             LAMBDA r : acceptTheme(r))

---------------------------------------------------------------------------
(* createStyling.                                                          *)

\* the caller's getStylingFromBase16: the default styling map of a theme
getStylingFromBase16(theme, st) ==
    LET s1 == [st EXCEPT !.calls = Append(@,
                  [fn |-> "getStylingFromBase16", props |-> Deep(theme, st.heap),
                   args |-> <<>>])]
    IN  R(Alloc(Alloc(s1, [color |-> Get(theme, "base0D", st.heap)]),
                [k1 |-> Ref(NewAddr(st)), k2 |-> Str("d2"),
                 k3 |-> User("fSty"), k5 |-> User("fAdd")]),
          Ref(NewAddr(st) + 1))

\* BASE16_KEYS.reduce((t, key) => (t[key] = themeOrStyling[key] || defaultBase16[key], t), {})
buildTheme(themeOrStyling, defaultBase16, h) ==
    [key \in BASE16_KEYS |->
        Or(Get(themeOrStyling, key, h), Get(defaultBase16, key, h))]

\* the keys of themeOrStyling that are not in BASE16_KEYS, with their values
buildCustomStyling(themeOrStyling, h) ==
    LET c == OwnProps(themeOrStyling, h)
    IN  [key \in DOMAIN c \ BASE16_KEYS |-> c[key]]

\* curry(fn, arity) called with n arguments calls fn at once when n >= arity
curryInvokes(arity, n) == n >= arity

\* curry(getStylingByKeys, 2)(mergedStyling, ...args)
curriedGetStylingByKeys(mergedStyling, args, st) ==
    IF curryInvokes(2, 1 + Len(args))
    THEN getStylingByKeys(mergedStyling, Head(args), Tail(args), st)
    ELSE R(st, Fun([k |-> "curried", mergedStyling |-> mergedStyling]))

\* const { defaultBase16 = DEFAULT_BASE16, base16Themes = null } = options
optionOr(options, name, default, h) ==
    IF Get(options, name, h) = Undefined THEN default ELSE Get(options, name, h)

\* createStyling from the theme lookup on: themeOrStyling is the input with
\* the resolved theme b.v, if any, laid under it
styleFrom(themeOrStyling, defaultBase16, args, sb) ==
    With(Alloc(Alloc(sb, buildTheme(themeOrStyling, defaultBase16, sb.heap)),
               buildCustomStyling(themeOrStyling, sb.heap)),
         LAMBDA sd :
             With(getStylingFromBase16(Ref(Len(sd.heap) - 1), sd),
                  LAMBDA d :
                      With(mergeStylings(Ref(Len(sd.heap)), d.v, d.st),
                           LAMBDA m : curriedGetStylingByKeys(m.v, args, m.st))))

createStyling(options, themeOrStyling0, args, st0) ==
    LET defaultBase16 == optionOr(options, "defaultBase16", DEFAULT_BASE16, st0.heap)
        base16Themes == optionOr(options, "base16Themes", Null, st0.heap)
        sa == IF themeOrStyling0 = Undefined THEN Alloc(st0, EmptyObj) ELSE st0
        tos0 == IF themeOrStyling0 = Undefined THEN Ref(NewAddr(st0)) ELSE themeOrStyling0
    IN  With(getBase16Theme(tos0, base16Themes, sa),
             LAMBDA b :
                 IF b.v = Throw THEN b
                 ELSE IF Truthy(b.v)
                 THEN styleFrom(Ref(NewAddr(b.st)), defaultBase16, args,
                                Alloc(b.st, Spread(OwnProps(b.v, b.st.heap),
                                                   OwnProps(tos0, b.st.heap))))
                 ELSE styleFrom(tos0, defaultBase16, args, b.st))

---------------------------------------------------------------------------
(* The inputs the callers choose from.                                     *)

Strings == {Str(""), Str("a"), Str("b")}

Objects == {Ref(1), Ref(2), Ref(3)}

Functions == {User(id) : id \in UserFnIds}

StylingValues == Strings \cup Objects \cup Functions

\* a key an input map does not have
Absent == [t |-> "absent"]

ArgLists == UNION {[1..n -> {Str("k1")}] : n \in 0..MaxArgs}

KeyLists == UNION {[1..n -> {Str("k1"), Str("k2")}] : n \in 0..MaxKeys}

KeysInputs == {Str("k1"), Str("k9")} \cup {Arr(l) : l \in KeyLists}

SecondValues == {Absent, Str("b"), Ref(3), User("fCls")}

\* the map { k1: v1, k2: v2 } without the absent keys
MapOf(v1, v2) ==
    LET val == [k1 |-> v1, k2 |-> v2]
    IN  [k \in {x \in {"k1", "k2"} : val[x] # Absent} |-> val[k]]

PropsInputs == {Ref(6), Ref(8)}

ThemeObjects == {Ref(1), Ref(9), Ref(10), Ref(11), Ref(14), Ref(19)}

ThemeInputs ==
    {Undefined, Str("ocean"), Str("ocean:inverted"), Str("mine"), Str("mine:inverted"),
     Str("nosuch"), Str("nosuch:inverted"), Str("ocean:inverted:x"),
     Ref(10), Ref(15), Ref(16), Ref(17), Ref(18), Ref(24)}

OptionsInputs == {Undefined, Ref(20), Ref(21), Ref(22), Ref(23)}

Store0 == [heap |-> BaseHeap, calls |-> <<>>]

View(r) == IF r.v = Throw THEN Throw ELSE Deep(r.v, r.st.heap)

---------------------------------------------------------------------------
(* The state machine: from the initial state a caller makes one call of a  *)
(* pure operation, or builds a resolver with createStyling and then looks  *)
(* keys up with it any number of times.                                    *)

Init ==
    /\ op = "init"
    /\ inp = <<>>
    /\ heap = BaseHeap
    /\ calls = <<>>
    /\ ret = Undefined
    /\ retv = Undefined
    /\ styling = Undefined
    /\ heap0 = <<>>

\* the state after a call that returned r
Finish(name, input, r) ==
    /\ op' = name
    /\ inp' = input
    /\ heap' = r.st.heap
    /\ calls' = r.st.calls
    /\ ret' = r.v
    /\ retv' = View(r)

\* mergeStyling(c, d)
MergeStyling ==
    /\ op = "init"
    /\ \E c \in StylingValues \cup {Undefined}, d \in StylingValues \cup {Undefined} :
          \E r \in {mergeStyling(c, d, Store0)} :
              Finish("mergeStyling", [c |-> c, d |-> d], r)
    /\ UNCHANGED <<styling, heap0>>

\* mergeStyling(c, d)(props, ...args), when mergeStyling(c, d) is a function
ApplyMerged ==
    /\ op = "init"
    /\ \E c \in StylingValues, d \in StylingValues, props \in PropsInputs, args \in ArgLists :
          \E m \in {mergeStyling(c, d, Store0)} :
              /\ typeof(m.v) = "function"
              /\ \E r \in {Apply(m.v, props, args, m.st)} :
                    Finish("applyMerged",
                           [c |-> c, d |-> d, props |-> props, args |-> args], r)
    /\ UNCHANGED <<styling, heap0>>

\* the store with the two input maps allocated: custom at Len(BaseHeap) + 1, default after it
WithMaps(custom, default) == Alloc(Alloc(Store0, custom), default)

CustomMap == Ref(Len(BaseHeap) + 1)

DefaultMap == Ref(Len(BaseHeap) + 2)

\* mergeStylings(customStylings, defaultStylings)
MergeStylings ==
    /\ op = "init"
    /\ \E c1 \in StylingValues \cup {Undefined, Absent},
          d1 \in StylingValues \cup {Undefined, Absent},
          c2 \in SecondValues, d2 \in SecondValues :
          \E r \in {mergeStylings(CustomMap, DefaultMap,
                                  WithMaps(MapOf(c1, c2), MapOf(d1, d2)))} :
              Finish("mergeStylings",
                     [custom |-> MapOf(c1, c2), default |-> MapOf(d1, d2)], r)
    /\ UNCHANGED <<styling, heap0>>

\* getStylingByKeys(mergeStylings(custom, default), keys, ...args)
Resolve ==
    /\ op = "init"
    /\ \E c1 \in StylingValues \cup {Absent}, d1 \in StylingValues \cup {Absent},
          v2 \in SecondValues, keys \in KeysInputs, args \in ArgLists :
          \E m \in {mergeStylings(CustomMap, DefaultMap,
                                  WithMaps(MapOf(c1, v2), MapOf(d1, Absent)))} :
              \E r \in {getStylingByKeys(m.v, keys, args, m.st)} :
                  Finish("resolve",
                         [c |-> c1, d |-> d1, v2 |-> v2, keys |-> keys, args |-> args], r)
    /\ UNCHANGED <<styling, heap0>>

RECURSIVE invertTimes(_, _, _)
invertTimes(n, theme, st) ==
    IF n = 0 THEN R(st, theme)
    ELSE With(invertTheme(theme, st), LAMBDA r : invertTimes(n - 1, r.v, r.st))

\* invertTheme(theme), applied once or several times in a row
InvertTheme ==
    /\ op = "init"
    /\ \E theme \in ThemeObjects, n \in 1..MaxInvert :
          \E r \in {invertTimes(n, theme, Store0)} :
              Finish("invertTheme", [theme |-> theme, times |-> n], r)
    /\ UNCHANGED <<styling, heap0>>

\* getBase16Theme(theme, base16Themes)
GetBase16Theme ==
    /\ op = "init"
    /\ \E theme \in ThemeInputs, base16Themes \in {Null, Ref(12)} :
          \E r \in {getBase16Theme(theme, base16Themes, Store0)} :
              Finish("getBase16Theme",
                     [theme |-> theme, base16Themes |-> base16Themes], r)
    /\ UNCHANGED <<styling, heap0>>

\* createStyling(getStylingFromBase16, options, themeOrStyling, ...args)
CreateStyling ==
    /\ op = "init"
    /\ \E options \in OptionsInputs, themeOrStyling \in ThemeInputs, args \in ArgLists :
          \E r \in {createStyling(options, themeOrStyling, args, Store0)} :
              /\ Finish("createStyling",
                        [options |-> options, themeOrStyling |-> themeOrStyling,
                         args |-> args], r)
              /\ styling' = IF typeof(r.v) = "function" THEN r.v ELSE Undefined
              /\ heap0' = IF typeof(r.v) = "function" THEN r.st.heap ELSE <<>>

\* styling(keys, ...args) on the resolver createStyling returned; what the
\* call allocated is garbage once its result has been read
Lookup ==
    /\ typeof(styling) = "function"
    /\ \E keys \in KeysInputs \cup {Null, Str("k3"), Arr(<<Str("k3"), Str("k1")>>)},
          args \in ArgLists :
          \E r \in {curriedGetStylingByKeys(styling.f.mergedStyling, <<keys>> \o args,
                                             [heap |-> heap, calls |-> <<>>])} :
              /\ op' = "lookup"
              /\ inp' = [keys |-> keys, args |-> args]
              /\ heap' = SubSeq(r.st.heap, 1, Len(heap))
              /\ calls' = r.st.calls
              /\ ret' = r.v
              /\ retv' = View(r)
    /\ UNCHANGED <<styling, heap0>>

Next ==
    \/ MergeStyling
    \/ ApplyMerged
    \/ MergeStylings
    \/ Resolve
    \/ InvertTheme
    \/ GetBase16Theme
    \/ CreateStyling
    \/ Lookup

Spec == Init /\ [][Next]_vars

---------------------------------------------------------------------------
(* The claims.                                                             *)

\* the value of map c at key: undefined when c has no such key
At(c, key) == IF key \in DOMAIN c THEN c[key] ELSE Undefined

\* C1: mergeStylings(C, D) has exactly the keys of C and of D, and under each
\* key K the merge of C[K] and D[K] alone (a missing key counts as undefined),
\* whatever the other keys of C and D hold.
C1_MergeStylingsIsKeywise ==
    op = "mergeStylings" =>
        LET allKeys == DOMAIN inp.custom \cup DOMAIN inp.default
        IN  /\ ret.t = "object"
            /\ DOMAIN heap[ret.a] = allKeys
            /\ \A key \in allKeys :
                  retv.c[key] = View(mergeStyling(At(inp.custom, key),
                                                  At(inp.default, key),
                                                  WithMaps(inp.custom, inp.default)))

\* a merge of maps with a key on both sides, merged to a function, and a key
\* that only the custom map has
C1_Witness ==
    /\ op = "mergeStylings"
    /\ "k1" \in DOMAIN inp.custom \cap DOMAIN inp.default
    /\ "k2" \in DOMAIN inp.custom \ DOMAIN inp.default
    /\ retv.c["k1"].t = "function"
    /\ retv.c["k2"] = Str("b")

\* C2: undefined is an identity of mergeStyling on both sides: the other
\* argument is returned as it is, and no object is created or changed.
C2_UndefinedIsIdentity ==
    op = "mergeStyling" =>
        /\ inp.c = Undefined => ret = inp.d /\ heap = BaseHeap
        /\ inp.d = Undefined => ret = inp.c /\ heap = BaseHeap

\* mergeStyling(C, undefined) was called with an object C
C2_Witness ==
    /\ op = "mergeStyling"
    /\ inp.d = Undefined
    /\ inp.c = Ref(2)
    /\ ret = Ref(2)

C4_LookupsLeaveMergedMapUnchanged ==
    typeof(styling) = "function" =>
        /\ heap = heap0
        /\ op = "lookup" =>
              retv = View(curriedGetStylingByKeys(styling.f.mergedStyling,
                                                  <<inp.keys>> \o inp.args,
                                                  [heap |-> heap0, calls |-> <<>>]))

\* a lookup of a function styling that shares its style object, then of an
\* object styling
C4_Witness ==
    /\ op = "lookup"
    /\ inp.keys = Arr(<<Str("k3"), Str("k1")>>)
    /\ Len(calls) = 1
    /\ "style" \in DOMAIN retv.c
    /\ {"weight", "color"} \subseteq DOMAIN retv.c["style"].c

\* s ends with suffix
EndsWith(s, suffix) ==
    Len(s) >= Len(suffix) /\ SubSeq(s, Len(s) - Len(suffix) + 1, Len(s)) = suffix

SequentialProps(c, d, args) ==
    View(getStylingByKeys(Ref(Len(BaseHeap) + 1), Arr(<<Str("kd"), Str("kc")>>), args,
                          Alloc(Store0, [kd |-> d, kc |-> c])))

\* the single key k1 of mergeStylings({ k1: C }, { k1: D }) was resolved
SingleKeyMerge ==
    /\ op = "resolve"
    /\ inp.v2 = Absent
    /\ inp.c # Absent
    /\ inp.d # Absent
    /\ inp.keys \in {Str("k1"), Arr(<<Str("k1")>>)}

\* the caller's functions that return a props object with both className and
\* style whenever they are given one
ReturnsComplete == {User("fId"), User("fAdd"), User("fHas")}

\* C10 as stated: merging C and D and resolving the one key gives the props of
\* resolving D and then C in sequence, for all strings, objects and functions.
C10_MergeThenResolveIsSequential ==
    SingleKeyMerge => retv = SequentialProps(inp.c, inp.d, inp.args)

\* C10 amended: the same, when a custom function returns a complete props
\* object and, next to a custom function, a default function does too.
C10_MergeThenResolveIsSequentialForComplete ==
    (/\ SingleKeyMerge
     /\ typeof(inp.c) = "function" =>
           /\ inp.c \in ReturnsComplete
           /\ typeof(inp.d) = "function" => inp.d \in ReturnsComplete)
    => retv = SequentialProps(inp.c, inp.d, inp.args)

\* a complete custom function was merged over a default object and resolved
C10_Witness ==
    /\ SingleKeyMerge
    /\ inp.c = User("fAdd")
    /\ inp.d = Ref(3)
    /\ Len(calls) = 1
    /\ retv.c["className"] = Str("g")
    /\ DOMAIN retv.c["style"].c = {"color", "size"}

\* C9 as stated: a custom function merged over a default string or object is
\* called once, with the arguments given and with the incoming props into
\* which the default was folded the way the key resolver folds it (a string
\* after the className, an object's keys over the style), and its result is
\* what the merged function returns.
C9_DefaultLiteralFoldedLikeResolver ==
    (/\ op = "applyMerged"
     /\ typeof(inp.c) = "function"
     /\ typeof(inp.d) \in {"string", "object"})
    => \E folded \in {reduceStep(inp.props, inp.d, inp.args, Store0)} :
          /\ Len(calls) = 1
          /\ calls[1].fn = inp.c.f.id
          /\ calls[1].args = inp.args
          /\ calls[1].props = Deep(folded.v, folded.st.heap)
          /\ retv = View(Apply(inp.c, folded.v, inp.args, folded.st))

\* the name part of a string theme reference
ThemeNameOf(theme) == SplitColon(theme.v)[1]

\* the theme reference is a string whose name neither registry has
UnknownName(theme, base16Themes) ==
    /\ theme.t = "string"
    /\ ThemeNameOf(theme) \notin DOMAIN base16
    /\ ThemeNameOf(theme) \notin DOMAIN OwnProps(base16Themes, BaseHeap)

\* C5 as stated: a string theme reference with an unknown name, with or
\* without ':inverted', makes getBase16Theme return undefined without
\* throwing, and createStyling complete with the default colours as its theme.
C5_UnknownThemeNameFallsBack ==
    /\ (op = "getBase16Theme" /\ UnknownName(inp.theme, inp.base16Themes)) =>
          ret = Undefined
    /\ (op = "createStyling"
        /\ UnknownName(inp.themeOrStyling,
                       optionOr(inp.options, "base16Themes", Null, BaseHeap))) =>
          /\ ret # Throw
          /\ Len(calls) >= 1
          /\ calls[1].props.c =
                BaseHeap[optionOr(inp.options, "defaultBase16", DEFAULT_BASE16, BaseHeap).a]

\* C6 as stated: for each reserved key the theme handed to
\* getStylingFromBase16 holds the effective input's value if it has one, else
\* options.defaultBase16's value if it has one, else the built-in default's.
C6_ThemeFallsBackKeyByKey ==
    (op = "createStyling" /\ ret # Throw) =>
        \E b \in {getBase16Theme(IF inp.themeOrStyling = Undefined THEN Ref(1)
                                 ELSE inp.themeOrStyling,
                                 optionOr(inp.options, "base16Themes", Null, BaseHeap),
                                 Store0)} :
            LET given == OwnProps(inp.themeOrStyling, BaseHeap)
                input == IF Truthy(b.v) THEN Spread(OwnProps(b.v, b.st.heap), given)
                         ELSE given
                own == OwnProps(Get(inp.options, "defaultBase16", BaseHeap), BaseHeap)
            IN  \A key \in BASE16_KEYS :
                    calls[1].props.c[key] =
                        IF key \in DOMAIN input THEN input[key]
                        ELSE IF key \in DOMAIN own THEN own[key]
                        ELSE BaseHeap[DEFAULT_BASE16.a][key]

\* C7 as stated: createStyling called with further arguments after the
\* theme-or-styling input returns a function that still awaits the keys.
C7_PresetArgsAreBound ==
    (op = "createStyling" /\ Len(inp.args) >= 1 /\ ret # Throw) =>
        /\ typeof(ret) = "function"
        /\ calls = <<[fn |-> "getStylingFromBase16", props |-> calls[1].props,
                      args |-> <<>>]>>

====
